---------------------------- MODULE Spec2Model ----------------------------
(***************************************************************************)
(* Verification model of the boids flock (src/src/flock.rs with the agent  *)
(* operations of src/src/boids.rs and the validation of validate.rs).      *)
(*                                                                         *)
(* f32 values are kept on a grid of 1/Scale: the integer n stands for the  *)
(* real n/Scale, and every arithmetic operation yields the exact real      *)
(* result truncated toward zero onto the grid.  NaN is the one non-finite  *)
(* value kept: it is absorbing in arithmetic and makes every ordered       *)
(* comparison false, as IEEE-754 comparisons do.                           *)
(***************************************************************************)
EXTENDS Integers, Sequences, FiniteSets, TLC

VARIABLES
    status,      \* "none", "ok" (Flock::new returned Ok), "err", "panicked"
    args,        \* the arguments Flock::new was called with
    errors,      \* InvalidFlockConfig.errors of an Err result
    flock,       \* the Flock value
    allocs,      \* agents allocated by Flock::new (pushes of generate_boids)
    last,        \* the last operation: its name, agent index, whether the
                 \* speed cap of limit_speed was applied, the agent before
                 \* it, the count and totals passed to a direct rule call
    randomized,  \* the collection descends from randomly_generate_boids
    ticks        \* update_boid calls since the collection was last replaced

vars == <<status, args, errors, flock, allocs, last, randomized, ticks>>

----------------------------------------------------------------------------
(* Bounds of the model.                                                    *)

\* number of update_boid calls explored after a construction or placement
MaxTicks == 3

\* largest flock_size passed to Flock::new
MaxFlock == 2

----------------------------------------------------------------------------
(* The f32 layer.                                                          *)

Scale == 10

NaN == 0 - (2 ^ 30)

IsNaN(a) == a = NaN

Sgn(a) == IF a < 0 THEN 0 - 1 ELSE 1

Abs(a) == IF a < 0 THEN 0 - a ELSE a

\* integer quotient truncated toward zero (TLA+ \div rounds toward -infinity)
Trunc(a, b) == Sgn(a) * Sgn(b) * (Abs(a) \div Abs(b))

FAdd(a, b) == IF IsNaN(a) \/ IsNaN(b) THEN NaN ELSE a + b

FSub(a, b) == IF IsNaN(a) \/ IsNaN(b) THEN NaN ELSE a - b

FNeg(a) == IF IsNaN(a) THEN NaN ELSE 0 - a

FMul(a, b) == IF IsNaN(a) \/ IsNaN(b) THEN NaN ELSE Trunc(a * b, Scale)

\* a / b; every division of the program is guarded against a zero divisor
\* (count > 0, speed > boid_max_speed, time_per_frame = 1.0), a zero divisor
\* yields a non-finite value
FDiv(a, b) == IF IsNaN(a) \/ IsNaN(b) \/ b = 0 THEN NaN ELSE Trunc(a * Scale, b)

FAbs(a) == IF IsNaN(a) THEN NaN ELSE Abs(a)

FLt(a, b) == ~IsNaN(a) /\ ~IsNaN(b) /\ a < b

FGt(a, b) == ~IsNaN(a) /\ ~IsNaN(b) /\ a > b

FGe(a, b) == ~IsNaN(a) /\ ~IsNaN(b) /\ a >= b

FLe(a, b) == ~IsNaN(a) /\ ~IsNaN(b) /\ a <= b

\* (a / c) * b: the quotient a / c keeps its full precision, only the product
\* is put on the grid
FDivMul(a, c, b) ==
    IF IsNaN(a) \/ IsNaN(b) \/ IsNaN(c) \/ c = 0 THEN NaN ELSE Trunc(a * b, c)

\* `count as f32`
FromInt(n) == n * Scale

RECURSIVE SqrtUpIn(_, _, _)
SqrtUpIn(n, lo, hi) ==
    IF lo >= hi THEN lo
    ELSE LET mid == (lo + hi) \div 2
         IN  IF mid * mid >= n THEN SqrtUpIn(n, lo, mid)
             ELSE SqrtUpIn(n, mid + 1, hi)

\* the least r with r * r >= n, for 0 <= n < 2^30
SqrtUp(n) == SqrtUpIn(n, 0, 2 ^ 15)

\* (x.powi(2) + y.powi(2)).sqrt(): the squares and their sum are exact, the
\* root is rounded up onto the grid
FNorm(x, y) == IF IsNaN(x) \/ IsNaN(y) THEN NaN ELSE SqrtUp(x * x + y * y)

----------------------------------------------------------------------------
(* Validation (flock.rs 28-98).                                            *)

FactorShouldBeMoreThanZero(name) ==
    [kind |-> "FactorShouldBeMoreThanZero", name |-> name]

FactorShouldBeLessThanOne(name) ==
    [kind |-> "FactorShouldBeLessThanOne", name |-> name]

LocalEnvironmentIsSmallerThanCrowdingEnvironment ==
    [kind |-> "LocalEnvironmentIsSmallerThanCrowdingEnvironment", name |-> ""]

\* Option<CreationError> as a sequence of length 0 or 1
check_float_between_zero_and_one(value, name) ==
    IF FLt(value, 0) THEN <<FactorShouldBeMoreThanZero(name)>>
    ELSE IF FGt(value, FromInt(1)) THEN <<FactorShouldBeLessThanOne(name)>>
    ELSE <<>>

\* [repulsion, adhesion, cohesion].into_iter().filter_map(..).collect()
validate_factors(repulsion_factor, adhesion_factor, cohesion_factor) ==
    check_float_between_zero_and_one(repulsion_factor, "repulsion")
    \o check_float_between_zero_and_one(adhesion_factor, "adhesion")
    \o check_float_between_zero_and_one(cohesion_factor, "cohesion")

validate_distances(max_dist_before_boid_is_crowded, max_dist_of_local_boid) ==
    IF FGe(max_dist_before_boid_is_crowded, max_dist_of_local_boid)
    THEN <<LocalEnvironmentIsSmallerThanCrowdingEnvironment>>
    ELSE <<>>

\* the short-circuiting validation a first-error-only implementation has
validate_first_only(f) ==
    LET all == validate_factors(f.repulsion_factor, f.adhesion_factor,
                                f.cohesion_factor)
               \o validate_distances(f.max_dist_before_boid_is_no_longer_crowded,
                                     f.max_dist_of_local_boid)
    IN  IF Len(all) > 0 THEN <<Head(all)>> ELSE <<>>

\* Flock::validate: the error list; Err(InvalidFlockConfig{errors}) iff it
\* is not empty
validate(f) ==
    validate_factors(f.repulsion_factor, f.adhesion_factor, f.cohesion_factor)
    \o validate_distances(f.max_dist_before_boid_is_no_longer_crowded,
                          f.max_dist_of_local_boid)

----------------------------------------------------------------------------
(* Agents and the flock (flock.rs 14-26, 104-187).                         *)

Boid(x_pos, y_pos, x_vel, y_vel) ==
    [x_pos |-> x_pos, y_pos |-> y_pos, x_vel |-> x_vel, y_vel |-> y_vel]

time_per_frame == FromInt(1)

boid_max_speed == FromInt(8)

frame_width == FromInt(800)

frame_height == FromInt(500)

\* the struct literal of Flock::new, boids: Vec::new()
FlockLit(flock_size, crowded, local, repulsion, adhesion, cohesion) ==
    [flock_size |-> flock_size,
     boids |-> <<>>,
     max_dist_before_boid_is_no_longer_crowded |-> crowded,
     max_dist_of_local_boid |-> local,
     repulsion_factor |-> repulsion,
     adhesion_factor |-> adhesion,
     cohesion_factor |-> cohesion,
     time_per_frame |-> time_per_frame,
     boid_max_speed |-> boid_max_speed,
     frame_width |-> frame_width,
     frame_height |-> frame_height]

\* no flock value is held (before construction, or the Err result)
NoFlock == FlockLit(0, 0, 0, 0, 0, 0)

NoArgs == [flock_size |-> 0, crowded |-> 0, local |-> 0,
           repulsion |-> 0, adhesion |-> 0, cohesion |-> 0]

\* a generation loop that stops one agent short
generate_boids_short(f) ==
    [k \in 1..(IF f.flock_size > 0 THEN f.flock_size - 1 ELSE 0)
        |-> Boid(0, 0, 0, 0)]

generate_boids(f) == [k \in 1..f.flock_size |-> Boid(0, 0, 0, 0)]

\* an init that drops the generated agents
init_skip(f) == f

init(f) == [f EXCEPT !.boids = generate_boids(f)]

----------------------------------------------------------------------------
(* Agent operations (boids.rs 105-133, 216-224).                           *)

\* a crowded-by test on the signed differences, without .abs()
is_crowded_by_boid_no_abs(self, other_boid, max_dist_before_boid_is_no_longer_crowded) ==
    /\ FLt(FSub(self.x_pos, other_boid.x_pos),
           max_dist_before_boid_is_no_longer_crowded)
    /\ FLt(FSub(self.y_pos, other_boid.y_pos),
           max_dist_before_boid_is_no_longer_crowded)

is_crowded_by_boid(self, other_boid, max_dist_before_boid_is_no_longer_crowded) ==
    /\ FLt(FAbs(FSub(self.x_pos, other_boid.x_pos)),
           max_dist_before_boid_is_no_longer_crowded)
    /\ FLt(FAbs(FSub(self.y_pos, other_boid.y_pos)),
           max_dist_before_boid_is_no_longer_crowded)

is_within_sight_of_local_boid(self, other_boid, max_dist_of_local_boid) ==
    /\ FLt(FAbs(FSub(self.x_pos, other_boid.x_pos)), max_dist_of_local_boid)
    /\ FLt(FAbs(FSub(self.y_pos, other_boid.y_pos)), max_dist_of_local_boid)

\* impl AddAssign for Boid
add_assign(self, other) ==
    Boid(FAdd(self.x_pos, other.x_pos), FAdd(self.y_pos, other.y_pos),
         FAdd(self.x_vel, other.x_vel), FAdd(self.y_vel, other.y_vel))

\* move away from the average position of the crowding boids; flock.rs 251
\* calls it with the boid, the repulsion factor and the time per frame
\* a separation that steers towards the crowding agents' mean position
uncrowd_boid_towards(b, num_crowding_boids, total_x_dist_of_crowding_boids, total_y_dist_of_crowding_boids, repulsion_factor, tpf) ==
    LET dist_to_ave_x_pos_of_crowding_boids ==
            FSub(FDiv(total_x_dist_of_crowding_boids,
                      FromInt(num_crowding_boids)), b.x_pos)
        dist_to_ave_y_pos_of_crowding_boids ==
            FSub(FDiv(total_y_dist_of_crowding_boids,
                      FromInt(num_crowding_boids)), b.y_pos)
    IN  [x_vel |-> FAdd(b.x_vel, FMul(dist_to_ave_x_pos_of_crowding_boids,
                                      repulsion_factor)),
         y_vel |-> FAdd(b.y_vel, FMul(dist_to_ave_y_pos_of_crowding_boids,
                                      repulsion_factor)),
         x_pos |-> FAdd(b.x_pos, FMul(b.x_vel, tpf)),
         y_pos |-> FAdd(b.y_pos, FMul(b.y_vel, tpf))]

uncrowd_boid(b, num_crowding_boids, total_x_dist_of_crowding_boids, total_y_dist_of_crowding_boids, repulsion_factor, tpf) ==
    LET dist_to_ave_x_pos_of_crowding_boids ==
            FSub(b.x_pos, FDiv(total_x_dist_of_crowding_boids,
                               FromInt(num_crowding_boids)))
        dist_to_ave_y_pos_of_crowding_boids ==
            FSub(b.y_pos, FDiv(total_y_dist_of_crowding_boids,
                               FromInt(num_crowding_boids)))
    IN  [x_vel |-> FAdd(b.x_vel, FMul(dist_to_ave_x_pos_of_crowding_boids,
                                      repulsion_factor)),
         y_vel |-> FAdd(b.y_vel, FMul(dist_to_ave_y_pos_of_crowding_boids,
                                      repulsion_factor)),
         x_pos |-> FAdd(b.x_pos, FMul(b.x_vel, tpf)),
         y_pos |-> FAdd(b.y_pos, FMul(b.y_vel, tpf))]

\* an alignment towards the summed velocity, the division by the count lost
align_boid_no_mean(b, num_local_boids, total_x_vel_of_local_boids, total_y_vel_of_local_boids, adhesion_factor, tpf) ==
    LET average_x_vel == total_x_vel_of_local_boids
        average_y_vel == total_y_vel_of_local_boids
    IN  [x_vel |-> FAdd(b.x_vel, FMul(FSub(average_x_vel, b.x_vel), adhesion_factor)),
         y_vel |-> FAdd(b.y_vel, FMul(FSub(average_y_vel, b.y_vel), adhesion_factor)),
         x_pos |-> FAdd(b.x_pos, FMul(b.x_vel, tpf)),
         y_pos |-> FAdd(b.y_pos, FMul(b.y_vel, tpf))]

\* move towards the average velocity of the local flock; flock.rs 261 calls
\* it with the boid, the adhesion factor and the time per frame
align_boid(b, num_local_boids, total_x_vel_of_local_boids, total_y_vel_of_local_boids, adhesion_factor, tpf) ==
    LET average_x_vel == FDiv(total_x_vel_of_local_boids, FromInt(num_local_boids))
        average_y_vel == FDiv(total_y_vel_of_local_boids, FromInt(num_local_boids))
    IN  [x_vel |-> FAdd(b.x_vel, FMul(FSub(average_x_vel, b.x_vel), adhesion_factor)),
         y_vel |-> FAdd(b.y_vel, FMul(FSub(average_y_vel, b.y_vel), adhesion_factor)),
         x_pos |-> FAdd(b.x_pos, FMul(b.x_vel, tpf)),
         y_pos |-> FAdd(b.y_pos, FMul(b.y_vel, tpf))]

\* the free function flock.rs 293 calls: the next-tick position is predicted
\* from the current velocity and, per axis, a prediction at or beyond the
\* frame's upper bound or at or below zero inverts that velocity component
maybe_reflect_off_boundaries(b, width, height, tpf) ==
    LET new_x_pos == FAdd(b.x_pos, FMul(b.x_vel, tpf))
        new_y_pos == FAdd(b.y_pos, FMul(b.y_vel, tpf))
    IN  [b EXCEPT
           !.x_vel = IF FGe(new_x_pos, width) \/ FLe(new_x_pos, 0)
                     THEN FNeg(b.x_vel) ELSE b.x_vel,
           !.y_vel = IF FGe(new_y_pos, height) \/ FLe(new_y_pos, 0)
                     THEN FNeg(b.y_vel) ELSE b.y_vel]

----------------------------------------------------------------------------
(* The flock coordinator (flock.rs 191-322).  Agent indices are the        *)
(* program's, from 0; boids[i + 1] is the agent of index i.                *)

At(f, i) == f.boids[i + 1]

\* an assignment that overwrites every agent of the collection
Put_all(f, i, b) == [f EXCEPT !.boids = [k \in DOMAIN f.boids |-> b]]

Put(f, i, b) == [f EXCEPT !.boids[i + 1] = b]

cohere_boid(f, boid_to_update, num_local_boids, total_x_dist_of_local_boids, total_y_dist_of_local_boids) ==
    LET b == At(f, boid_to_update)
        dist_to_ave_x_pos_of_local_boids ==
            FSub(FDiv(total_x_dist_of_local_boids, FromInt(num_local_boids)), b.x_pos)
        dist_to_ave_y_pos_of_local_boids ==
            FSub(FDiv(total_y_dist_of_local_boids, FromInt(num_local_boids)), b.y_pos)
    IN  Put(f, boid_to_update,
            [x_vel |-> FAdd(b.x_vel,
                            FDiv(FMul(dist_to_ave_x_pos_of_local_boids,
                                      f.cohesion_factor), f.time_per_frame)),
             y_vel |-> FAdd(b.y_vel,
                            FDiv(FMul(dist_to_ave_y_pos_of_local_boids,
                                      f.cohesion_factor), f.time_per_frame)),
             x_pos |-> FAdd(b.x_pos, FMul(b.x_vel, f.time_per_frame)),
             y_pos |-> FAdd(b.y_pos, FMul(b.y_vel, f.time_per_frame))])

\* a limit_speed whose cap is never applied
limit_speed_no_cap(f, boid_to_update) ==
    LET b == At(f, boid_to_update)
    IN  Put(f, boid_to_update,
            [b EXCEPT !.x_pos = FAdd(b.x_pos, FMul(b.x_vel, f.time_per_frame)),
                      !.y_pos = FAdd(b.y_pos, FMul(b.y_vel, f.time_per_frame))])

limit_speed(f, boid_to_update) ==
    LET b == At(f, boid_to_update)
        speed == FNorm(b.x_vel, b.y_vel)
        capped == FGt(speed, f.boid_max_speed)
        x_vel == IF capped THEN FDivMul(b.x_vel, speed, f.boid_max_speed)
                 ELSE b.x_vel
        y_vel == IF capped THEN FDivMul(b.y_vel, speed, f.boid_max_speed)
                 ELSE b.y_vel
    IN  Put(f, boid_to_update,
            [x_vel |-> x_vel,
             y_vel |-> y_vel,
             x_pos |-> FAdd(b.x_pos, FMul(x_vel, f.time_per_frame)),
             y_pos |-> FAdd(b.y_pos, FMul(y_vel, f.time_per_frame))])

\* the classification scan of update_boid (flock.rs 221-248), from the agent
\* of index boid_idx on; acc holds the five accumulators
RECURSIVE Scan(_, _, _, _)
Scan(f, boid_to_update, boid_idx, acc) ==
    IF boid_idx >= Len(f.boids) THEN acc
    ELSE IF boid_idx = boid_to_update
         THEN Scan(f, boid_to_update, boid_idx + 1, acc)
    ELSE LET other_boid == At(f, boid_idx)
             me == At(f, boid_to_update)
         IN  IF is_crowded_by_boid(me, other_boid,
                                   f.max_dist_before_boid_is_no_longer_crowded)
             THEN Scan(f, boid_to_update, boid_idx + 1,
                       [acc EXCEPT
                          !.num_crowding_boids = @ + 1,
                          !.total_x_dist_of_crowding_boids = FAdd(@, other_boid.x_pos),
                          !.total_y_dist_of_crowding_boids = FAdd(@, other_boid.y_pos)])
             ELSE IF is_within_sight_of_local_boid(me, other_boid,
                                                   f.max_dist_of_local_boid)
             THEN Scan(f, boid_to_update, boid_idx + 1,
                       [acc EXCEPT
                          !.num_local_boids = @ + 1,
                          !.total_of_local_boids = add_assign(@, other_boid)])
             ELSE Scan(f, boid_to_update, boid_idx + 1, acc)

ScanStart == [total_x_dist_of_crowding_boids |-> 0,
              total_y_dist_of_crowding_boids |-> 0,
              num_crowding_boids |-> 0,
              total_of_local_boids |-> Boid(0, 0, 0, 0),
              num_local_boids |-> 0]

\* a loop without the `continue` for the agent itself: an agent is within
\* any positive radius of its own position and counts as crowding
scan_counts_self(f, boid_to_update) ==
    LET acc == Scan(f, boid_to_update, 0, ScanStart)
        me == At(f, boid_to_update)
    IN  [acc EXCEPT
           !.num_crowding_boids = @ + 1,
           !.total_x_dist_of_crowding_boids = FAdd(@, me.x_pos),
           !.total_y_dist_of_crowding_boids = FAdd(@, me.y_pos)]

\* the accumulators update_boid holds after its loop (flock.rs 221-248)
scan(f, boid_to_update) == Scan(f, boid_to_update, 0, ScanStart)

\* update_boid after `if num_crowding_boids > 0 { .. }` (flock.rs 250-259)
uncrowd_stage(f, boid_to_update) ==
    LET acc == scan(f, boid_to_update)
    IN  IF acc.num_crowding_boids > 0
        THEN Put(f, boid_to_update,
                 uncrowd_boid(At(f, boid_to_update),
                              acc.num_crowding_boids,
                              acc.total_x_dist_of_crowding_boids,
                              acc.total_y_dist_of_crowding_boids,
                              f.repulsion_factor, f.time_per_frame))
        ELSE f

\* update_boid after the align_boid call of `if num_local_boids > 0`
\* (flock.rs 260-268); the flock is that of uncrowd_stage when the local
\* count is zero
align_stage(f, boid_to_update) ==
    LET acc == scan(f, boid_to_update)
        f1 == uncrowd_stage(f, boid_to_update)
    IN  IF acc.num_local_boids > 0
        THEN Put(f1, boid_to_update,
                 align_boid(At(f1, boid_to_update),
                            acc.num_local_boids,
                            acc.total_of_local_boids.x_vel,
                            acc.total_of_local_boids.y_vel,
                            f1.adhesion_factor, f1.time_per_frame))
        ELSE f1

\* update_boid after the cohere_boid call (flock.rs 270-277)
cohere_stage(f, boid_to_update) ==
    LET acc == scan(f, boid_to_update)
        f1 == align_stage(f, boid_to_update)
    IN  IF acc.num_local_boids > 0
        THEN cohere_boid(f1, boid_to_update, acc.num_local_boids,
                         acc.total_of_local_boids.x_pos,
                         acc.total_of_local_boids.y_pos)
        ELSE f1

\* a rule stage that calls uncrowd_boid without the positive-count check
apply_rules_unguarded(f, boid_to_update) ==
    LET acc == Scan(f, boid_to_update, 0, ScanStart)
        f1 == Put(f, boid_to_update,
                  uncrowd_boid(At(f, boid_to_update),
                               acc.num_crowding_boids,
                               acc.total_x_dist_of_crowding_boids,
                               acc.total_y_dist_of_crowding_boids,
                               f.repulsion_factor, f.time_per_frame))
        f2 == IF acc.num_local_boids > 0
              THEN cohere_boid(
                       Put(f1, boid_to_update,
                           align_boid(At(f1, boid_to_update),
                                      acc.num_local_boids,
                                      acc.total_of_local_boids.x_vel,
                                      acc.total_of_local_boids.y_vel,
                                      f1.adhesion_factor, f1.time_per_frame)),
                       boid_to_update, acc.num_local_boids,
                       acc.total_of_local_boids.x_pos,
                       acc.total_of_local_boids.y_pos)
              ELSE f1
        b2 == At(f2, boid_to_update)
    IN  IF acc.num_local_boids = 0 /\ acc.num_crowding_boids = 0
        THEN Put(f2, boid_to_update,
                 [x_vel |-> b2.x_vel,
                  y_vel |-> b2.y_vel,
                  x_pos |-> FAdd(b2.x_pos, FMul(b2.x_vel, f2.time_per_frame)),
                  y_pos |-> FAdd(b2.y_pos, FMul(b2.y_vel, f2.time_per_frame))])
        ELSE f2

\* a rule stage whose unaffected branch turns the agent round
apply_rules_turns(f, boid_to_update) ==
    LET acc == scan(f, boid_to_update)
        f2 == cohere_stage(f, boid_to_update)
        b2 == At(f2, boid_to_update)
    IN  IF acc.num_local_boids = 0 /\ acc.num_crowding_boids = 0
        THEN Put(f2, boid_to_update,
                 [x_vel |-> FNeg(b2.x_vel),
                  y_vel |-> FNeg(b2.y_vel),
                  x_pos |-> FAdd(b2.x_pos, FMul(b2.x_vel, f2.time_per_frame)),
                  y_pos |-> FAdd(b2.y_pos, FMul(b2.y_vel, f2.time_per_frame))])
        ELSE f2

\* update_boid up to its rule stage (flock.rs 221-290)
apply_rules(f, boid_to_update) ==
    LET acc == Scan(f, boid_to_update, 0, ScanStart)
        f1 == IF acc.num_crowding_boids > 0
              THEN Put(f, boid_to_update,
                       uncrowd_boid(At(f, boid_to_update),
                                    acc.num_crowding_boids,
                                    acc.total_x_dist_of_crowding_boids,
                                    acc.total_y_dist_of_crowding_boids,
                                    f.repulsion_factor, f.time_per_frame))
              ELSE f
        f2 == IF acc.num_local_boids > 0
              THEN cohere_boid(
                       Put(f1, boid_to_update,
                           align_boid(At(f1, boid_to_update),
                                      acc.num_local_boids,
                                      acc.total_of_local_boids.x_vel,
                                      acc.total_of_local_boids.y_vel,
                                      f1.adhesion_factor, f1.time_per_frame)),
                       boid_to_update, acc.num_local_boids,
                       acc.total_of_local_boids.x_pos,
                       acc.total_of_local_boids.y_pos)
              ELSE f1
        b2 == At(f2, boid_to_update)
    IN  IF acc.num_local_boids = 0 /\ acc.num_crowding_boids = 0
        THEN Put(f2, boid_to_update,
                 [x_vel |-> b2.x_vel,
                  y_vel |-> b2.y_vel,
                  x_pos |-> FAdd(b2.x_pos, FMul(b2.x_vel, f2.time_per_frame)),
                  y_pos |-> FAdd(b2.y_pos, FMul(b2.y_vel, f2.time_per_frame))])
        ELSE f2

\* an update_boid that leaves out the boundary reflection
update_boid_no_reflect(f, boid_to_update) ==
    limit_speed(apply_rules(f, boid_to_update), boid_to_update)

\* Flock::update_boid for an index within the collection
update_boid(f, boid_to_update) ==
    LET f3 == limit_speed(apply_rules(f, boid_to_update), boid_to_update)
    IN  Put(f3, boid_to_update,
            maybe_reflect_off_boundaries(At(f3, boid_to_update), f3.frame_width,
                                         f3.frame_height, f3.time_per_frame))

\* the velocities update_boid adds to the agent's position, in the order of
\* the additions: uncrowd_boid with the velocity it is given (flock.rs 251),
\* align_boid with the one uncrowding left (261), cohere_boid with the one
\* alignment left (270), the unaffected branch (282-289), and limit_speed
\* with the velocity it has just capped (314-321)
integration_steps(f, boid_to_update) ==
    LET acc == scan(f, boid_to_update)
        vel(g) == <<At(g, boid_to_update).x_vel, At(g, boid_to_update).y_vel>>
    IN  (IF acc.num_crowding_boids > 0 THEN <<vel(f)>> ELSE <<>>)
        \o (IF acc.num_local_boids > 0
            THEN <<vel(uncrowd_stage(f, boid_to_update)),
                   vel(align_stage(f, boid_to_update))>>
            ELSE <<>>)
        \o (IF acc.num_local_boids = 0 /\ acc.num_crowding_boids = 0
            THEN <<vel(f)>> ELSE <<>>)
        \o <<vel(limit_speed(apply_rules(f, boid_to_update), boid_to_update))>>

\* `self.boids[boid_to_update]` panics when the index is not in the Vec; the
\* first such access is reached for every collection, the empty one included
\* (flock.rs 282)
update_boid_panics(f, boid_to_update) == boid_to_update >= Len(f.boids)

----------------------------------------------------------------------------
(* Randomized placement (flock.rs 167-187).                                *)

\* rng.gen_range(low..high) for the draw u of 0..8: the range is half open,
\* u = 8 is the largest value below high, u < 8 is low + u/8 of the range
gen_range(low, high, u) ==
    IF u = 8 THEN high - 1 ELSE low + Trunc((high - low) * u, 8)

\* a placement whose spread is the whole frame width instead of a tenth
randomly_generate_boids_wide(f, draws) ==
    LET width == f.frame_width
        mid_frame_x == FDiv(width, FromInt(2))
        mid_frame_y == FDiv(width, FromInt(2))
        max_starting_dist_from_mid_x == FDiv(width, FromInt(1))
        max_starting_dist_from_mid_y == FDiv(width, FromInt(1))
    IN  [f EXCEPT !.boids =
           [k \in 1..f.flock_size |->
              Boid(FAdd(mid_frame_x,
                        gen_range(FNeg(max_starting_dist_from_mid_x),
                                  max_starting_dist_from_mid_x, draws[k][1])),
                   FAdd(mid_frame_y,
                        gen_range(FNeg(max_starting_dist_from_mid_y),
                                  max_starting_dist_from_mid_y, draws[k][2])),
                   gen_range(FNeg(f.boid_max_speed), f.boid_max_speed, draws[k][3]),
                   gen_range(FNeg(f.boid_max_speed), f.boid_max_speed, draws[k][4]))]]

\* draws[k] holds the four draws of the k-th agent, in the order of the calls
randomly_generate_boids(f, draws) ==
    LET width == f.frame_width
        mid_frame_x == FDiv(width, FromInt(2))
        mid_frame_y == FDiv(width, FromInt(2))
        max_starting_dist_from_mid_x == FDiv(width, FromInt(10))
        max_starting_dist_from_mid_y == FDiv(width, FromInt(10))
    IN  [f EXCEPT !.boids =
           [k \in 1..f.flock_size |->
              Boid(FAdd(mid_frame_x,
                        gen_range(FNeg(max_starting_dist_from_mid_x),
                                  max_starting_dist_from_mid_x, draws[k][1])),
                   FAdd(mid_frame_y,
                        gen_range(FNeg(max_starting_dist_from_mid_y),
                                  max_starting_dist_from_mid_y, draws[k][2])),
                   gen_range(FNeg(f.boid_max_speed), f.boid_max_speed, draws[k][3]),
                   gen_range(FNeg(f.boid_max_speed), f.boid_max_speed, draws[k][4]))]]

----------------------------------------------------------------------------
(* Inputs.                                                                 *)

\* <<repulsion, adhesion, cohesion>>: the boundary values 0.0 and 1.0, the
\* adhesion 0.5 and the out-of-range values -4.9 and 2.0 of the tests, and NaN
Factors == {<<0, 0, 0>>, <<FromInt(1), FromInt(1), FromInt(1)>>,
            <<0, FromInt(1) \div 2, 0>>,
            <<FromInt(1), 0, 0>>, <<0, FromInt(1), 0>>, <<0, 0, FromInt(1)>>,
            <<FromInt(2), 0 - 49, FromInt(1)>>, <<FromInt(2), 0 - 49, FromInt(2)>>,
            <<0, 0, 0 - 49>>, <<0 - 49, FromInt(2), 0>>,
            <<NaN, FromInt(1), FromInt(1)>>}

\* crowding radii 2.0 and 40.0; local radii -4.9, 2.0 and 50.0
CrowdedDists == {FromInt(2), FromInt(40)}

LocalDists == {0 - 49, FromInt(2), FromInt(50)}

\* the four draws of one agent
Draws == {<<0, 0, 0, 0>>, <<7, 7, 0, 8>>, <<8, 8, 8, 7>>}

----------------------------------------------------------------------------
(* The state machine.                                                      *)

NoOp == [op |-> "none", idx |-> 0, capped |-> FALSE,
         pre |-> Boid(0, 0, 0, 0), call |-> <<0, 0, 0>>]

Init ==
    /\ status = "none"
    /\ args = NoArgs
    /\ errors = <<>>
    /\ flock = NoFlock
    /\ allocs = 0
    /\ last = NoOp
    /\ randomized = FALSE
    /\ ticks = 0

\* a Flock::new that allocates the agents before it validates
new_init_first(a) ==
    LET f0 == FlockLit(a.flock_size, a.crowded, a.local,
                       a.repulsion, a.adhesion, a.cohesion)
        f1 == init(f0)
        errs == validate(f1)
    IN  IF Len(errs) > 0
        THEN [status |-> "err", errors |-> errs, flock |-> NoFlock,
              allocs |-> Len(f1.boids)]
        ELSE [status |-> "ok", errors |-> <<>>, flock |-> f1,
              allocs |-> Len(f1.boids)]

\* Flock::new: the Result and the number of agents it allocated
new(a) ==
    LET f0 == FlockLit(a.flock_size, a.crowded, a.local,
                       a.repulsion, a.adhesion, a.cohesion)
        errs == validate(f0)
    IN  IF Len(errs) > 0
        THEN [status |-> "err", errors |-> errs, flock |-> NoFlock, allocs |-> 0]
        ELSE [status |-> "ok", errors |-> <<>>, flock |-> init(f0),
              allocs |-> Len(init(f0).boids)]

\* the flock is constructed once, at the start of a run
New ==
    /\ status = "none"
    /\ \E n \in 0..MaxFlock, c \in CrowdedDists, l \in LocalDists,
       fs \in Factors :
         LET a == [flock_size |-> n, crowded |-> c, local |-> l,
                   repulsion |-> fs[1], adhesion |-> fs[2], cohesion |-> fs[3]]
             res == new(a)
         IN  /\ args' = a
             /\ status' = res.status
             /\ errors' = res.errors
             /\ flock' = res.flock
             /\ allocs' = res.allocs
             /\ last' = [NoOp EXCEPT !.op = "new"]
             /\ randomized' = FALSE
             /\ ticks' = 0

RandomlyGenerateBoids ==
    /\ status = "ok"
    /\ \E draws \in [1..flock.flock_size -> Draws] :
           flock' = randomly_generate_boids(flock, draws)
    /\ last' = [NoOp EXCEPT !.op = "randomize"]
    /\ randomized' = TRUE
    /\ ticks' = 0
    /\ UNCHANGED <<status, args, errors, allocs>>

UpdateBoid ==
    /\ status = "ok"
    /\ ticks < MaxTicks
    /\ \E i \in 0..MaxFlock :
         IF update_boid_panics(flock, i)
         THEN /\ status' = "panicked"
              /\ last' = [NoOp EXCEPT !.op = "update", !.idx = i]
              /\ UNCHANGED flock
         ELSE /\ flock' = update_boid(flock, i)
              /\ last' = [NoOp EXCEPT
                            !.op = "update", !.idx = i,
                            !.pre = At(flock, i),
                            !.capped = LET b == At(apply_rules(flock, i), i)
                                       IN  FGt(FNorm(b.x_vel, b.y_vel),
                                               flock.boid_max_speed)]
              /\ UNCHANGED status
    /\ ticks' = ticks + 1
    /\ UNCHANGED <<args, errors, allocs, randomized>>

Next == New \/ RandomlyGenerateBoids \/ UpdateBoid

Spec == Init /\ [][Next]_vars

\* agents as the tests place them (`flock.boids = vec![..]`, flock.rs 331-333),
\* and agents on the frame's far edges moving outward
PlacedBoids == {Boid(FromInt(1), FromInt(1), FromInt(1), FromInt(1)),
                Boid(FromInt(10), FromInt(10), FromInt(2), FromInt(2)),
                Boid(FromInt(800), FromInt(250), FromInt(8), 0),
                Boid(FromInt(400), FromInt(500), FromInt(1), FromInt(5))}

\* direct assignment of the pub(crate) field boids
PlaceBoids ==
    /\ status = "ok"
    /\ \E n \in 1..MaxFlock : \E bs \in [1..n -> PlacedBoids] :
           flock' = [flock EXCEPT !.boids = bs]
    /\ last' = [NoOp EXCEPT !.op = "place"]
    /\ randomized' = FALSE
    /\ ticks' = 0
    /\ UNCHANGED <<status, args, errors, allocs>>

NextPlaced == Next \/ PlaceBoids

SpecPlaced == Init /\ [][NextPlaced]_vars

\* The rule calls of the unit tests (boids.rs 295-371): a flock built with
\* flock_size 0 has two agents assigned to its boids field, then
\* uncrowd_boid and align_boid are called on agent 0 with an explicit count
\* and explicit totals.

\* number of direct rule calls explored after a placement
MaxCalls == 2

\* Flock::new(0, ..) of the tests
NewTest ==
    /\ status = "none"
    /\ \E c \in CrowdedDists, l \in LocalDists, fs \in Factors :
         LET a == [flock_size |-> 0, crowded |-> c, local |-> l,
                   repulsion |-> fs[1], adhesion |-> fs[2], cohesion |-> fs[3]]
             res == new(a)
         IN  /\ args' = a
             /\ status' = res.status
             /\ errors' = res.errors
             /\ flock' = res.flock
             /\ allocs' = res.allocs
             /\ last' = [NoOp EXCEPT !.op = "new"]
             /\ randomized' = FALSE
             /\ ticks' = 0

TestBoids == {Boid(FromInt(1), FromInt(1), FromInt(1), FromInt(1)),
              Boid(FromInt(1), FromInt(1), FromInt(1), FromInt(5)),
              Boid(FromInt(10), FromInt(10), FromInt(1), FromInt(5))}

\* <<count, total x, total y>> of a call: (1, 10.0, 10.0) and (2, 20.0, 0.0)
\* of the tests, and a pair of totals whose mean is off the integers
RuleCalls == {<<1, FromInt(10), FromInt(10)>>, <<2, FromInt(20), 0>>,
              <<2, FromInt(5), FromInt(3)>>}

\* flock.boids = vec![boid, other_boid]
PlaceTestBoids ==
    /\ status = "ok"
    /\ last.op = "new"
    /\ \E b \in TestBoids, o \in TestBoids :
           flock' = [flock EXCEPT !.boids = <<b, o>>]
    /\ last' = [NoOp EXCEPT !.op = "place"]
    /\ randomized' = FALSE
    /\ ticks' = 0
    /\ UNCHANGED <<status, args, errors, allocs>>

\* self.boids[0] = Boid::uncrowd_boid(self.boids[0], n, tx, ty, ..)
UncrowdCall ==
    /\ status = "ok"
    /\ last.op \in {"place", "uncrowd", "align"}
    /\ ticks < MaxCalls
    /\ \E c \in RuleCalls :
           /\ flock' = Put(flock, 0,
                           uncrowd_boid(At(flock, 0), c[1], c[2], c[3],
                                        flock.repulsion_factor,
                                        flock.time_per_frame))
           /\ last' = [NoOp EXCEPT !.op = "uncrowd", !.pre = At(flock, 0),
                                   !.call = c]
    /\ ticks' = ticks + 1
    /\ UNCHANGED <<status, args, errors, allocs, randomized>>

\* self.boids[0] = Boid::align_boid(&self.boids[0].clone(), n, tvx, tvy, ..)
AlignCall ==
    /\ status = "ok"
    /\ last.op \in {"place", "uncrowd", "align"}
    /\ ticks < MaxCalls
    /\ \E c \in RuleCalls :
           /\ flock' = Put(flock, 0,
                           align_boid(At(flock, 0), c[1], c[2], c[3],
                                      flock.adhesion_factor,
                                      flock.time_per_frame))
           /\ last' = [NoOp EXCEPT !.op = "align", !.pre = At(flock, 0),
                                   !.call = c]
    /\ ticks' = ticks + 1
    /\ UNCHANGED <<status, args, errors, allocs, randomized>>

NextRules == NewTest \/ PlaceTestBoids \/ UncrowdCall \/ AlignCall

SpecRules == Init /\ [][NextRules]_vars

----------------------------------------------------------------------------
(* Claims.                                                                 *)

\* the configuration the flock was constructed with is valid: each factor
\* in [0, 1] and the local radius strictly greater than the crowding radius
InUnit(v) == FGe(v, 0) /\ FLe(v, FromInt(1))

ValidArgs ==
    /\ InUnit(args.repulsion) /\ InUnit(args.adhesion) /\ InUnit(args.cohesion)
    /\ FGt(args.local, args.crowded)

Constructed == status \in {"ok", "panicked"}

Agents == 1..Len(flock.boids)

\* C1: a failed construction reports every applicable violation at once: per
\* factor, in the order repulsion, adhesion, cohesion, a below-zero error if
\* the factor is < 0 or an above-one error if it is > 1, then the
\* local-environment error if crowding radius >= local radius; construction
\* fails exactly when that list is not empty; four bad inputs give 4 errors
\* and the factors (2.0, -4.9, 1.0) give [repulsion above one, adhesion
\* below zero]
C1_AllViolationsReported ==
    LET Of(v, n) ==
            IF FLt(v, 0)
            THEN <<[kind |-> "FactorShouldBeMoreThanZero", name |-> n]>>
            ELSE IF FGt(v, FromInt(1))
            THEN <<[kind |-> "FactorShouldBeLessThanOne", name |-> n]>>
            ELSE <<>>
        Env == IF FGe(args.crowded, args.local)
               THEN <<[kind |-> "LocalEnvironmentIsSmallerThanCrowdingEnvironment",
                       name |-> ""]>>
               ELSE <<>>
        Expected == Of(args.repulsion, "repulsion") \o Of(args.adhesion, "adhesion")
                    \o Of(args.cohesion, "cohesion") \o Env
    IN  status # "none" =>
          /\ (status = "err") = (Len(Expected) > 0)
          /\ errors = Expected
          /\ (/\ args.repulsion = FromInt(2) /\ args.adhesion = 0 - 49
              /\ args.cohesion = FromInt(2) /\ args.crowded = FromInt(2)
              /\ args.local = 0 - 49) => Len(errors) = 4
          /\ (/\ args.repulsion = FromInt(2) /\ args.adhesion = 0 - 49
              /\ args.cohesion = FromInt(1) /\ FGt(args.local, args.crowded))
             => errors = <<[kind |-> "FactorShouldBeLessThanOne", name |-> "repulsion"],
                           [kind |-> "FactorShouldBeMoreThanZero", name |-> "adhesion"]>>

C1_Witness == status = "err" /\ Len(errors) = 4

\* C2: Flock::new returns a flock if and only if every factor lies in
\* [0, 1] and the local radius is strictly greater than the crowding radius
C2_ValidIffInRange == status # "none" => (Constructed <=> ValidArgs)

\* C3: when validation fails no agent has been allocated and no flock with
\* agents is held, whatever flock_size was asked for
C3_NoAllocationOnFailure ==
    status = "err" => allocs = 0 /\ flock.boids = <<>>

C3_Witness == status = "err" /\ args.flock_size > 0

\* C4: after update_boid on a flock of valid configuration the agent just
\* updated has speed sqrt(vx^2 + vy^2) <= boid_max_speed
C4_SpeedCapped ==
    (status = "ok" /\ ValidArgs /\ last.op = "update") =>
        LET b == At(flock, last.idx)
        IN  b.x_vel * b.x_vel + b.y_vel * b.y_vel
              <= flock.boid_max_speed * flock.boid_max_speed

C4_Witness == status = "ok" /\ ValidArgs /\ last.op = "update" /\ last.capped

StrictlyInside(b) ==
    /\ FGt(b.x_pos, 0) /\ FLt(b.x_pos, flock.frame_width)
    /\ FGt(b.y_pos, 0) /\ FLt(b.y_pos, flock.frame_height)

\* C5: starting from a randomized flock of valid configuration, after any
\* sequence of update_boid calls every agent is strictly inside the frame
C5_AlwaysInsideFrame ==
    (status = "ok" /\ ValidArgs /\ randomized) =>
        \A k \in Agents : StrictlyInside(flock.boids[k])

RECURSIVE Sweep(_, _)
\* one tick: update_boid for each index of the sequence order, in that order
Sweep(f, order) ==
    IF order = <<>> THEN f ELSE Sweep(update_boid(f, Head(order)), Tail(order))

Orders(n) ==
    {o \in [1..n -> 0..(n - 1)] : \A a, b \in 1..n : a # b => o[a] # o[b]}

\* C6: the collection obtained by updating every agent once is the same for
\* every order in which the indices are processed
C6_OrderIndependent ==
    (status = "ok" /\ ValidArgs /\ randomized) =>
        \A o1, o2 \in Orders(Len(flock.boids)) :
            Sweep(flock, o1).boids = Sweep(flock, o2).boids

\* C7: after Flock::new with a valid configuration and
\* randomly_generate_boids every agent has 0 <= x <= frame_width,
\* 0 <= y <= frame_height and each velocity component within
\* [-boid_max_speed, boid_max_speed]
C7_RandomizedWithinFrame ==
    (status = "ok" /\ ValidArgs /\ last.op = "randomize") =>
        \A k \in Agents :
            LET b == flock.boids[k]
            IN  /\ FGe(b.x_pos, 0) /\ FLe(b.x_pos, flock.frame_width)
                /\ FGe(b.y_pos, 0) /\ FLe(b.y_pos, flock.frame_height)
                /\ FLe(FAbs(b.x_vel), flock.boid_max_speed)
                /\ FLe(FAbs(b.y_vel), flock.boid_max_speed)

C7_Witness ==
    /\ status = "ok" /\ ValidArgs /\ last.op = "randomize"
    /\ Len(flock.boids) = 2
    /\ flock.boids[1].y_pos > flock.boids[2].y_pos
    /\ flock.boids[1].x_vel = 0 - flock.boid_max_speed

\* C8: an agent on the frame's far edge (x = frame_width or y =
\* frame_height) with outward velocity has, after one update_boid, that
\* velocity component pointing inward and its position on that axis strictly
\* between 0 and the frame dimension
C8_FarEdgeReflected ==
    [][(status = "ok" /\ status' = "ok" /\ ValidArgs /\ last'.op = "update") =>
         LET b == At(flock, last'.idx)
             c == At(flock', last'.idx)
         IN  /\ (b.x_pos = flock.frame_width /\ b.x_vel > 0) =>
                    (c.x_vel < 0 /\ c.x_pos > 0 /\ c.x_pos < flock.frame_width)
             /\ (b.y_pos = flock.frame_height /\ b.y_vel > 0) =>
                    (c.y_vel < 0 /\ c.y_pos > 0 /\ c.y_pos < flock.frame_height)
      ]_vars

\* C9: on a constructed flock update_boid(i) does not panic for any
\* i < flock_size, and no operation after construction yields an error
C9_UpdateTotal ==
    (last.op = "update" /\ last.idx < flock.flock_size) =>
        status = "ok" /\ errors = <<>>

C9_Witness ==
    /\ status = "ok" /\ last.op = "update" /\ ticks >= 3
    /\ flock.flock_size = 2 /\ last.idx = 1

\* C10: a successful Flock::new(n, ..) holds exactly n agents, each at
\* (0, 0) with velocity (0, 0); with n = 0 the collection is empty and
\* randomly_generate_boids leaves it empty
C10_ZeroInitialised ==
    /\ (status = "ok" /\ last.op = "new") =>
          /\ Len(flock.boids) = args.flock_size
          /\ \A k \in Agents : flock.boids[k] = Boid(0, 0, 0, 0)
    /\ (status = "ok" /\ last.op = "randomize" /\ args.flock_size = 0) =>
          flock.boids = <<>>

C10_Witness ==
    status = "ok" /\ last.op = "randomize" /\ args.flock_size = 0


\* C11: speed limiting is idempotent: for every agent of a flock built from
\* a valid configuration, applying limit_speed twice in a row leaves the
\* agent in the same state as applying it once
C11_LimitSpeedIdempotent ==
    (status = "ok" /\ ValidArgs) =>
        \A i \in 0..(Len(flock.boids) - 1) :
            At(limit_speed(limit_speed(flock, i), i), i)
                = At(limit_speed(flock, i), i)

\* the two agents are nearer than r on both axes, written on the signed
\* differences in both directions
NearOnBothAxes(a, b, r) ==
    /\ ~IsNaN(a.x_pos) /\ ~IsNaN(a.y_pos) /\ ~IsNaN(b.x_pos) /\ ~IsNaN(b.y_pos)
    /\ a.x_pos - b.x_pos < r /\ b.x_pos - a.x_pos < r
    /\ a.y_pos - b.y_pos < r /\ b.y_pos - a.y_pos < r

\* C12: the crowded-by test and the within-sight test are symmetric in the
\* two agents for every pair A, B and each radius r >= 0 of the flock, and
\* each is true exactly when both axis-wise absolute position differences
\* are strictly less than r
C12_ProximitySymmetric ==
    status = "ok" =>
        \A i \in Agents, j \in Agents :
            \A r \in {flock.max_dist_before_boid_is_no_longer_crowded,
                      flock.max_dist_of_local_boid} :
                LET A == flock.boids[i]
                    B == flock.boids[j]
                IN  /\ is_crowded_by_boid(A, B, r) = is_crowded_by_boid(B, A, r)
                    /\ is_within_sight_of_local_boid(A, B, r)
                           = is_within_sight_of_local_boid(B, A, r)
                    /\ is_crowded_by_boid(A, B, r) = NearOnBothAxes(A, B, r)
                    /\ is_within_sight_of_local_boid(A, B, r)
                           = NearOnBothAxes(A, B, r)

\* after a rule call, a pair that is crowded at the crowding radius, and a
\* pair whose differences equal the crowding radius exactly and is therefore
\* not crowded
C12_Witness ==
    /\ status = "ok" /\ last.op \in {"uncrowd", "align"}
    /\ LET r == flock.max_dist_before_boid_is_no_longer_crowded
           A == flock.boids[1]
           B == flock.boids[2]
       IN  /\ r >= 0
           /\ Abs(A.x_pos - B.x_pos) = r /\ Abs(A.y_pos - B.y_pos) = r
           /\ ~is_crowded_by_boid(A, B, r)
           /\ is_crowded_by_boid(A, B, flock.max_dist_of_local_boid)

\* v1 is v0 moved by the fraction factor of the way to total / n, up to the
\* two truncations onto the grid (of the mean and of the product)
MovedByFactor(v0, v1, total, n, factor) ==
    Abs(n * Scale * (v1 - v0) - (total - n * v0) * factor) < 2 * n * Scale

\* C13: the alignment update with a positive neighbour count sets the
\* velocity to vel + (mean_neighbour_vel - vel) * adhesion_factor: with
\* factor 1 the new velocity is the neighbours' mean velocity, with factor 0
\* it is unchanged and with factor 0.5 it is the midpoint; velocity (1, 5)
\* with two neighbours of summed velocity (20, 0) becomes (10, 0), (1, 5)
\* and (5.5, 2.5)
C13_AlignTowardsMean ==
    (status = "ok" /\ ValidArgs /\ last.op = "align") =>
        LET v0 == last.pre
            v1 == At(flock, 0)
            n == last.call[1]
            f == flock.adhesion_factor
            mean_x == Trunc(last.call[2], n)
            mean_y == Trunc(last.call[3], n)
        IN  /\ n > 0
            /\ MovedByFactor(v0.x_vel, v1.x_vel, last.call[2], n, f)
            /\ MovedByFactor(v0.y_vel, v1.y_vel, last.call[3], n, f)
            /\ f = FromInt(1) => v1.x_vel = mean_x /\ v1.y_vel = mean_y
            /\ f = 0 => v1.x_vel = v0.x_vel /\ v1.y_vel = v0.y_vel
            /\ 2 * f = FromInt(1) =>
                   /\ Abs(2 * v1.x_vel - (v0.x_vel + mean_x)) <= 1
                   /\ Abs(2 * v1.y_vel - (v0.y_vel + mean_y)) <= 1
            /\ (v0.x_vel = FromInt(1) /\ v0.y_vel = FromInt(5)
                /\ last.call = <<2, FromInt(20), 0>>) =>
                   /\ f = FromInt(1) =>
                          v1.x_vel = FromInt(10) /\ v1.y_vel = 0
                   /\ 2 * f = FromInt(1) => v1.x_vel = 55 /\ v1.y_vel = 25

\* test_half_adhesion: velocity (1, 5), two neighbours of summed velocity
\* (20, 0), adhesion 0.5
C13_Witness ==
    /\ status = "ok" /\ ValidArgs /\ last.op = "align"
    /\ 2 * flock.adhesion_factor = FromInt(1)
    /\ last.pre.x_vel = FromInt(1) /\ last.pre.y_vel = FromInt(5)
    /\ last.call = <<2, FromInt(20), 0>>
    /\ At(flock, 0).x_vel = 55 /\ At(flock, 0).y_vel = 25

\* C14: the separation update with a positive crowding count sets the
\* velocity to vel + (self_pos - mean_crowding_pos) * repulsion_factor: with
\* factor 0 the velocity is unchanged, and with a positive factor and the
\* crowding agents' mean x larger than the agent's x the new x velocity is
\* strictly less than before
C14_UncrowdAwayFromMean ==
    (status = "ok" /\ ValidArgs /\ last.op = "uncrowd") =>
        LET v0 == last.pre
            v1 == At(flock, 0)
            n == last.call[1]
            f == flock.repulsion_factor
        IN  /\ n > 0
            /\ Abs(n * Scale * (v1.x_vel - v0.x_vel)
                   - (n * v0.x_pos - last.call[2]) * f) < 2 * n * Scale
            /\ Abs(n * Scale * (v1.y_vel - v0.y_vel)
                   - (n * v0.y_pos - last.call[3]) * f) < 2 * n * Scale
            /\ f = 0 => v1.x_vel = v0.x_vel /\ v1.y_vel = v0.y_vel
            /\ (f > 0 /\ last.call[2] > n * v0.x_pos) => v1.x_vel < v0.x_vel

\* test_crowded_boid_has_updated_velocity with repulsion 1: the agent at
\* x = 1 with one crowding agent at x = 10 loses 9 of x velocity
C14_Witness ==
    /\ status = "ok" /\ ValidArgs /\ last.op = "uncrowd"
    /\ flock.repulsion_factor = FromInt(1)
    /\ last.pre.x_pos = FromInt(1)
    /\ last.call = <<1, FromInt(10), FromInt(10)>>
    /\ At(flock, 0).x_vel = last.pre.x_vel - FromInt(9)

\* the flock the last update_boid call started from: update_boid writes the
\* updated agent only, and last.pre is that agent before the call
Before == Put(flock, last.idx, last.pre)

Updated == status = "ok" /\ ValidArgs /\ last.op = "update"

\* C15: the cohesion update with a positive local count sets the velocity to
\* vel + (mean_local_pos - self_pos) * cohesion_factor, where self_pos is the
\* agent's position at the start of the tick; with cohesion factor 0 the
\* velocity is unchanged
C15_CohesionFromTickStart ==
    Updated =>
        LET i == last.idx
            acc == scan(Before, i)
            n == acc.num_local_boids
            v0 == At(align_stage(Before, i), i)
            v1 == At(cohere_stage(Before, i), i)
            self_pos == last.pre
            f == flock.cohesion_factor
        IN  n > 0 =>
              /\ Abs(n * Scale * (v1.x_vel - v0.x_vel)
                     - (acc.total_of_local_boids.x_pos - n * self_pos.x_pos) * f)
                   < 2 * n * Scale
              /\ Abs(n * Scale * (v1.y_vel - v0.y_vel)
                     - (acc.total_of_local_boids.y_pos - n * self_pos.y_pos) * f)
                   < 2 * n * Scale
              /\ f = 0 => v1.x_vel = v0.x_vel /\ v1.y_vel = v0.y_vel

\* indices of the agents other than i that pass the crowded test with i
CrowdingOf(f, i) ==
    {j \in 0..(Len(f.boids) - 1) :
        /\ j # i
        /\ is_crowded_by_boid(At(f, i), At(f, j),
                              f.max_dist_before_boid_is_no_longer_crowded)}

\* indices of the agents other than i that fail the crowded test and pass
\* the local test with i
LocalOf(f, i) ==
    {j \in 0..(Len(f.boids) - 1) :
        /\ j # i
        /\ ~is_crowded_by_boid(At(f, i), At(f, j),
                               f.max_dist_before_boid_is_no_longer_crowded)
        /\ is_within_sight_of_local_boid(At(f, i), At(f, j),
                                         f.max_dist_of_local_boid)}

RECURSIVE SumOf(_, _, _)
SumOf(f, S, field) ==
    IF S = {} THEN 0
    ELSE LET j == CHOOSE k \in S : TRUE
         IN  FAdd(At(f, j)[field], SumOf(f, S \ {j}, field))

\* C16: the scan of update_boid(i) classifies every other agent into at most
\* one class and never i itself: the crowding count and sums are those of
\* the agents j # i that pass the crowded test, the local count and sums
\* those of the agents j # i that fail it and pass the local test, so the
\* two counts together are at most flock_size - 1 and no agent contributes
\* to both sums
C16_ScanExclusive ==
    (status = "ok" /\ last.op = "update") =>
        LET i == last.idx
            acc == scan(Before, i)
            C == CrowdingOf(Before, i)
            L == LocalOf(Before, i)
        IN  /\ acc.num_crowding_boids = Cardinality(C)
            /\ acc.num_local_boids = Cardinality(L)
            /\ acc.total_x_dist_of_crowding_boids = SumOf(Before, C, "x_pos")
            /\ acc.total_y_dist_of_crowding_boids = SumOf(Before, C, "y_pos")
            /\ acc.total_of_local_boids
                   = Boid(SumOf(Before, L, "x_pos"), SumOf(Before, L, "y_pos"),
                          SumOf(Before, L, "x_vel"), SumOf(Before, L, "y_vel"))
            /\ acc.num_crowding_boids + acc.num_local_boids
                   <= flock.flock_size - 1

\* an update whose one neighbour passes both tests and is counted as
\* crowding only
C16_Witness ==
    /\ status = "ok" /\ last.op = "update"
    /\ LET i == last.idx
           acc == scan(Before, i)
       IN  /\ acc.num_crowding_boids = 1 /\ acc.num_local_boids = 0
           /\ \E j \in CrowdingOf(Before, i) :
                  is_within_sight_of_local_boid(At(Before, i), At(Before, j),
                                                flock.max_dist_of_local_boid)

\* the speed-limited velocity of the last update_boid call, before the
\* reflection
Limited == At(limit_speed(apply_rules(Before, last.idx), last.idx), last.idx)

RECURSIVE SumSteps(_, _)
SumSteps(steps, k) ==
    IF steps = <<>> THEN 0
    ELSE FAdd(FMul(Head(steps)[k], flock.time_per_frame),
              SumSteps(Tail(steps), k))

\* the last update_boid call found no crowding and no local agent
NoNeighbours ==
    LET acc == scan(Before, last.idx)
    IN  acc.num_crowding_boids = 0 /\ acc.num_local_boids = 0

\* with a neighbour the rule stage ends in the flock of cohere_stage
StagesAgreeWithRules ==
    (Updated /\ ~NoNeighbours) =>
        cohere_stage(Before, last.idx) = apply_rules(Before, last.idx)

\* the position after update_boid is the position before plus every
\* integration step
StepsAccountForPosition ==
    Updated =>
        LET steps == integration_steps(Before, last.idx)
            b == At(flock, last.idx)
        IN  /\ b.x_pos = FAdd(last.pre.x_pos, SumSteps(steps, 1))
            /\ b.y_pos = FAdd(last.pre.y_pos, SumSteps(steps, 2))

\* C17: in every update_boid call the speed limit is applied once, after all
\* separation, alignment and cohesion adjustments and before any integration
\* of the position: no step of the update advances the position with a
\* velocity that has not yet been speed-limited
C17_IntegrateLimitedOnly ==
    Updated =>
        LET steps == integration_steps(Before, last.idx)
        IN  \A k \in 1..Len(steps) :
                steps[k] = <<Limited.x_vel, Limited.y_vel>>

\* per axis, a prediction at or beyond the frame's upper bound or at or
\* below zero
PredictedOut(pos, vel, bound) ==
    LET p == FAdd(pos, FMul(vel, flock.time_per_frame))
    IN  FGe(p, bound) \/ FLe(p, 0)

\* the last update_boid call reflected neither velocity component
NoReflection ==
    /\ ~PredictedOut(Limited.x_pos, Limited.x_vel, flock.frame_width)
    /\ ~PredictedOut(Limited.y_pos, Limited.y_vel, flock.frame_height)

\* C18: one update_boid call integrates the position exactly once: the
\* position after the call is the position before it plus vel *
\* time_per_frame for a single velocity vel of the call, whichever branch
\* ran; an agent with no neighbours, a speed within the maximum and away
\* from the boundary is displaced by exactly its velocity times
\* time_per_frame
C18_IntegratedOnce ==
    Updated =>
        LET steps == integration_steps(Before, last.idx)
            b == At(flock, last.idx)
        IN  /\ \E k \in 1..Len(steps) :
                  /\ b.x_pos = FAdd(last.pre.x_pos,
                                    FMul(steps[k][1], flock.time_per_frame))
                  /\ b.y_pos = FAdd(last.pre.y_pos,
                                    FMul(steps[k][2], flock.time_per_frame))
            /\ (NoNeighbours /\ ~last.capped /\ NoReflection) =>
                  /\ b.x_pos = FAdd(last.pre.x_pos,
                                    FMul(last.pre.x_vel, flock.time_per_frame))
                  /\ b.y_pos = FAdd(last.pre.y_pos,
                                    FMul(last.pre.y_vel, flock.time_per_frame))

C20_UnaffectedKeepsVelocity ==
    (Updated /\ NoNeighbours) =>
        LET b == At(flock, last.idx)
            r == At(apply_rules(Before, last.idx), last.idx)
            dx == FMul(last.pre.x_vel, flock.time_per_frame)
            dy == FMul(last.pre.y_vel, flock.time_per_frame)
        IN  /\ r.x_vel = last.pre.x_vel /\ r.y_vel = last.pre.y_vel
            /\ (~last.capped /\ NoReflection) =>
                  /\ b.x_vel = last.pre.x_vel /\ b.y_vel = last.pre.y_vel
                  /\ \E k \in 1..2 :
                        /\ b.x_pos = last.pre.x_pos + k * dx
                        /\ b.y_pos = last.pre.y_pos + k * dy

\* an update of a moving agent with no neighbour, a speed within the maximum
\* and no reflection: the velocity is kept and the position has moved
C20_Witness ==
    /\ Updated /\ NoNeighbours /\ ~last.capped /\ NoReflection
    /\ last.pre.x_vel # 0 /\ last.pre.y_vel # 0
    /\ At(flock, last.idx).x_vel = last.pre.x_vel
    /\ At(flock, last.idx).y_vel = last.pre.y_vel
    /\ At(flock, last.idx).x_pos # last.pre.x_pos
    /\ At(flock, last.idx).y_pos # last.pre.y_pos

\* no coordinate of the agent is the non-finite value a division by a zero
\* count yields
Finite(b) ==
    ~IsNaN(b.x_pos) /\ ~IsNaN(b.y_pos) /\ ~IsNaN(b.x_vel) /\ ~IsNaN(b.y_vel)

\* C21: division by a neighbour count of zero is never reached in
\* update_boid: the separation update runs only when the crowding count is
\* > 0 and the alignment and cohesion updates only when the local count is
\* > 0, so with a zero count the stage leaves the flock as it was and no
\* coordinate of the updated agent is the non-finite quotient, for every flock
\* state, a single agent and agents all out of range of each other included
C21_NoDivisionByZeroCount ==
    Updated =>
        LET i == last.idx
            acc == scan(Before, i)
        IN  /\ acc.num_crowding_boids = 0 => uncrowd_stage(Before, i) = Before
            /\ acc.num_local_boids = 0 =>
                   cohere_stage(Before, i) = uncrowd_stage(Before, i)
            /\ Finite(At(apply_rules(Before, i), i))
            /\ Finite(At(flock, i))

\* an update in a flock of two agents that are out of range of each other
C21_Witness ==
    /\ Updated /\ NoNeighbours
    /\ Len(flock.boids) = 2
    /\ last.pre.x_vel # 0
    /\ Finite(At(flock, last.idx))

\* C22: randomly_generate_boids places each agent per axis around that
\* axis's own frame centre: x within frame_width / 2 +/- frame_width / 10 and
\* y within frame_height / 2 +/- frame_height / 10
C22_PlacedAroundOwnCentre ==
    (status = "ok" /\ ValidArgs /\ last.op = "randomize") =>
        \A k \in Agents :
            LET b == flock.boids[k]
            IN  /\ 10 * Abs(2 * b.x_pos - flock.frame_width)
                       <= 2 * flock.frame_width
                /\ 10 * Abs(2 * b.y_pos - flock.frame_height)
                       <= 2 * flock.frame_height

\* the configuration fields of the flock, the agents left out
Config(f) == [f EXCEPT !.boids = <<>>]

\* C23: update_boid(i) writes only agent i: after the call every other agent
\* has the same position and velocity as before, the number of agents is
\* unchanged and equal to flock_size, and the radii, the three factors, the
\* maximum speed, the time per frame and the frame width and height are
\* unchanged; this holds after any sequence of update_boid and
\* randomly_generate_boids calls
C23_UpdateWritesOneAgent ==
    [][(status = "ok" /\ status' = "ok") =>
          /\ Len(flock'.boids) = Len(flock.boids)
          /\ Len(flock'.boids) = flock'.flock_size
          /\ Config(flock') = Config(flock)
          /\ Config(flock') = Config(FlockLit(args.flock_size, args.crowded,
                                              args.local, args.repulsion,
                                              args.adhesion, args.cohesion))
          /\ last'.op = "update" =>
                \A k \in 1..Len(flock.boids) :
                    k # last'.idx + 1 => flock'.boids[k] = flock.boids[k]]_vars

\* a second agent has been updated after the first one in a randomized flock
\* of two: the first keeps the state its own update left
C23_Witness ==
    /\ status = "ok" /\ randomized /\ last.op = "update"
    /\ Len(flock.boids) = 2 /\ last.idx = 1 /\ ticks >= 2
    /\ flock.boids[2] # last.pre
    /\ flock.boids[1] # flock.boids[2]

=============================================================================
